---- MODULE Spec2Model ----
(***************************************************************************)
(* Model of src/main.py: the fortune service.                              *)
(*                                                                         *)
(* Two specifications over one set of variables:                           *)
(*   Spec      get_fortune executed statement by statement, for every      *)
(*             classifier output up to MaxLabels entries and every answer  *)
(*             table of AnswerTables;                                      *)
(*   SpecHttp  the /predict and /result handlers on the single event loop, *)
(*             MaxRequests requests in flight, get_fortune running inside  *)
(*             the /result handler (it has no await, so it is never        *)
(*             interleaved with another handler), the webhook in the       *)
(*             background task after the response.                         *)
(*                                                                         *)
(* Vietnamese literals of the source are written without diacritics.       *)
(* Scores are in hundredths: 0.6 is 60.                                    *)
(***************************************************************************)
EXTENDS Integers, Sequences, FiniteSets, TLC

VARIABLES
    classifier,        \* line 33-38: "pipeline" or "None"
    ANSWERS_DATA,      \* line 45-51: the loaded answer table
    LABEL_MAPPING,     \* line 54-65
    CANDIDATE_LABELS,  \* line 68
    WEBHOOK_URL,       \* line 70: "None", or the value of the environment variable
    pc,                \* position inside get_fortune
    name, age, question, birth_year,
    result,            \* line 106: the classifier's output, zipped
    idx,               \* entries of result the for loop of line 110 has consumed
    statuses, topic_labels,
    todo,              \* statuses the for loop of line 128 has not visited yet
    selected_answers,
    final_response,
    calls,             \* classifier invocations of this get_fortune execution
    caught,            \* what the except clause of line 117 caught: "", "call", "loop"
    cur,               \* the request whose handler holds the event loop, 0 if none
    rpc,               \* per request: position in its handling
    rargs,             \* per request: the form data (the background task's arguments)
    response,          \* the response object the running handler has built
    sent,              \* per request: its response has been sent
    posts              \* per request: POSTs attempted by send_webhook

static == <<classifier, ANSWERS_DATA, LABEL_MAPPING, CANDIDATE_LABELS, WEBHOOK_URL>>
locals == <<name, age, question, birth_year, result, idx, statuses, topic_labels,
            todo, selected_answers, final_response, calls, caught>>
frame  == <<pc, locals>>
http   == <<cur, rpc, rargs, response, sent, posts>>
vars   == <<static, frame, http>>

----------------------------------------------------------------------------
(* Bounds *)

MaxLabels == 2

MaxRequests == 2

----------------------------------------------------------------------------
(* Program constants *)

Threshold == 60

LabelMappingInit ==
    [l \in {"Su nghiep", "Cong viec", "Tinh duyen", "Tinh yeu", "Gia dao",
            "Suc khoe", "Tai loc", "Tien bac", "Tong quat", "Khac"} |->
        CASE l \in {"Su nghiep", "Cong viec"} -> "S0"
          [] l \in {"Tinh duyen", "Tinh yeu", "Gia dao"} -> "S1"
          [] l = "Suc khoe" -> "S2"
          [] l \in {"Tai loc", "Tien bac"} -> "S3"
          [] OTHER -> "S4"]

CandidateLabelsInit ==
    <<"Su nghiep", "Tinh duyen", "Suc khoe", "Tai loc", "Tong quat">>

FallbackStatus == "S4"

FallbackLabel == "Tong quat"

DefaultAnswer ==
    "Vu tru dang gui tin hieu nhieu, nhung hay tin rang moi dieu tot dep se den."

----------------------------------------------------------------------------
(* Inputs *)

\* Answer tables json.load can produce (line 48), and the empty table of a
\* failed load (line 51).
EmptyTable == <<>>

FullTable ==
    << [status |-> "S0", answers |-> <<"a0", "b0">>],
       [status |-> "S1", answers |-> <<"a1", "b1">>],
       [status |-> "S2", answers |-> <<"a2">>],
       [status |-> "S3", answers |-> <<"a3">>],
       [status |-> "S4", answers |-> <<"a4", "b4">>] >>

\* no record for S1, a record without an "answers" key, two records for S4
GapTable ==
    << [status |-> "S0"],
       [status |-> "S4", answers |-> <<"a4">>],
       [status |-> "S4", answers |-> <<"z4">>] >>

\* a record whose answer list is empty
EmptyPoolTable ==
    << [status |-> "S0", answers |-> <<"a0">>],
       [status |-> "S1", answers |-> <<"a1", "b1">>],
       [status |-> "S4", answers |-> <<>>] >>

AnswerTables == {EmptyTable, FullTable, GapTable, EmptyPoolTable}

\* What the classifier may return: labels of the candidate list, a mapped
\* label outside it, and a label LABEL_MAPPING does not know.
OutLabels == {"Su nghiep", "Tinh duyen", "Gia dao", "Tong quat", "La"}

OutScores == {30, 60, 61}

Entries == [label : OutLabels, score : OutScores]

Results == UNION {[1..n -> Entries] : n \in 0..MaxLabels}

HttpResults ==
    { <<>>,
      << [label |-> "Su nghiep", score |-> 61] >>,
      << [label |-> "Tinh duyen", score |-> 61], [label |-> "Su nghiep", score |-> 60] >> }

Years == {2024}

Names == {"", "An"}

Ages == {0, 25, 121}

Questions == {"", "q"}

FormData == [name : Names, age : Ages, question : Questions]

\* The form data the model posts to /result and passes to get_fortune.
Requests ==
    { [name |-> "An", age |-> 25, question |-> "q"],
      [name |-> "", age |-> 25, question |-> "q"],
      [name |-> "An", age |-> 0, question |-> "q"],
      [name |-> "An", age |-> 121, question |-> ""] }

NoArgs == [name |-> "", age |-> 0, question |-> ""]

NoResponse == [kind |-> "none"]

Reqs == 1..MaxRequests

----------------------------------------------------------------------------
(* Pure helpers of get_fortune *)

\* the comparison written >=
AboveOrEqualThreshold(score) == score >= Threshold

\* line 111
AboveThreshold(score) == score > Threshold

\* line 113
IsMapped(mapping, label) == label \in DOMAIN mapping

\* line 130: next(item for item in ANSWERS_DATA if item["status"] == status),
\* as the index of the first such record, 0 for None
CategoryIndex(table, status) ==
    IF \E k \in 1..Len(table) : table[k].status = status
    THEN CHOOSE k \in 1..Len(table) :
            /\ table[k].status = status
            /\ \A j \in 1..(k - 1) : table[j].status # status
    ELSE 0

\* line 132: category_data and "answers" in category_data
HasAnswers(table, status) ==
    /\ CategoryIndex(table, status) # 0
    /\ "answers" \in DOMAIN table[CategoryIndex(table, status)]

Pool(table, status) == table[CategoryIndex(table, status)].answers

\* line 133: the values random.choice can return
Choices(pool) == {pool[k] : k \in 1..Len(pool)}

\* line 140: " ".join(selected_answers)
RECURSIVE Join(_)
Join(seq) ==
    IF seq = <<>> THEN ""
    ELSE IF Len(seq) = 1 THEN seq[1]
    ELSE seq[1] \o " " \o Join(Tail(seq))

Greeting(n, by) == "Gia chu " \o n \o ", Sinh nam " \o ToString(by) \o ". "

\* line 141
FormatResponse(n, by, combined) == Greeting(n, by) \o combined

\* lines 162-166 of predict
Invalid(a) == a.name = "" \/ a.question = "" \/ a.age < 1 \/ a.age > 120

----------------------------------------------------------------------------
(* Initial states *)

InitFrame ==
    /\ pc = "idle"
    /\ name = "" /\ age = 0 /\ question = "" /\ birth_year = 0
    /\ result = <<>> /\ idx = 0
    /\ statuses = {} /\ topic_labels = <<>>
    /\ todo = {} /\ selected_answers = <<>>
    /\ final_response = ""
    /\ calls = 0 /\ caught = ""

InitHttpVars ==
    /\ cur = 0
    /\ rpc = [r \in Reqs |-> "idle"]
    /\ rargs = [r \in Reqs |-> NoArgs]
    /\ response = NoResponse
    /\ sent = [r \in Reqs |-> FALSE]
    /\ posts = [r \in Reqs |-> 0]

\* lines 33-70: the module's globals after import
InitStatic ==
    /\ classifier \in {"None", "pipeline"}
    /\ ANSWERS_DATA \in AnswerTables
    /\ LABEL_MAPPING = LabelMappingInit
    /\ CANDIDATE_LABELS = CandidateLabelsInit
    /\ WEBHOOK_URL \in {"None", "", "https://hook"}

Init == InitStatic /\ InitFrame /\ InitHttpVars

----------------------------------------------------------------------------
(* get_fortune, lines 87-143 *)

\* lines 96-101: the frame of one call
GetFortuneEnter(a) ==
    /\ name' = a.name /\ age' = a.age /\ question' = a.question
    /\ \E current_year \in Years : birth_year' = current_year - a.age
    /\ statuses' = {} /\ topic_labels' = <<>>
    /\ result' = <<>> /\ idx' = 0
    /\ todo' = {} /\ selected_answers' = <<>> /\ final_response' = ""
    /\ calls' = 0 /\ caught' = ""
    /\ pc' = "classify"

\* the caller drops the frame
FrameReset ==
    /\ name' = "" /\ age' = 0 /\ question' = "" /\ birth_year' = 0
    /\ statuses' = {} /\ topic_labels' = <<>>
    /\ result' = <<>> /\ idx' = 0
    /\ todo' = {} /\ selected_answers' = <<>> /\ final_response' = ""
    /\ calls' = 0 /\ caught' = ""
    /\ pc' = "idle"

\* line 103, classifier is None: the try block is skipped
ClassifierNone ==
    /\ pc = "classify"
    /\ classifier = "None"
    /\ pc' = "fallback"
    /\ UNCHANGED <<static, locals, http>>

\* line 106 without the try block: the error leaves get_fortune
ClassifierRaiseUncaught ==
    /\ pc = "classify"
    /\ classifier # "None"
    /\ calls' = calls + 1
    /\ pc' = "raised"
    /\ UNCHANGED <<static, http, name, age, question, birth_year, result, idx, caught,
                   statuses, topic_labels, todo, selected_answers, final_response>>

\* line 106 raises, lines 117-118 catch it
ClassifierRaise ==
    /\ pc = "classify"
    /\ classifier # "None"
    /\ calls' = calls + 1
    /\ caught' = "call"
    /\ pc' = "fallback"
    /\ UNCHANGED <<static, http, name, age, question, birth_year, result, idx,
                   statuses, topic_labels, todo, selected_answers, final_response>>

\* line 106 returns one of outs
ClassifierReturn(outs) ==
    /\ pc = "classify"
    /\ classifier # "None"
    /\ calls' = calls + 1
    /\ result' \in outs
    /\ idx' = 0
    /\ pc' = "loop"
    /\ UNCHANGED <<static, http, name, age, question, birth_year, caught,
                   statuses, topic_labels, todo, selected_answers, final_response>>

\* lines 111-115 on one (label, score) pair
Keeps(mapping, e) == AboveThreshold(e.score) /\ IsMapped(mapping, e.label)

\* lines 110-115: one iteration of the for loop
LoopStep ==
    /\ pc = "loop"
    /\ idx < Len(result)
    /\ LET e == result[idx + 1] IN
        /\ statuses' = IF Keeps(LABEL_MAPPING, e)
                       THEN statuses \cup {LABEL_MAPPING[e.label]} ELSE statuses
        /\ topic_labels' = IF Keeps(LABEL_MAPPING, e)
                           THEN Append(topic_labels, e.label) ELSE topic_labels
    /\ idx' = idx + 1
    /\ UNCHANGED <<static, http, pc, name, age, question, birth_year, result, calls,
                   caught, todo, selected_answers, final_response>>

\* lines 111-113 raise inside an iteration (the comparison, the print, the
\* membership test), before anything is added: lines 117-118 catch it
LoopRaise ==
    /\ pc = "loop"
    /\ idx < Len(result)
    /\ caught' = "loop"
    /\ pc' = "fallback"
    /\ UNCHANGED <<static, http, name, age, question, birth_year, result, idx, calls,
                   statuses, topic_labels, todo, selected_answers, final_response>>

\* line 110: zip is exhausted
LoopEnd ==
    /\ pc = "loop"
    /\ idx = Len(result)
    /\ pc' = "fallback"
    /\ UNCHANGED <<static, locals, http>>

\* the fallback taken only when the classifier is missing
NeedsFallbackNoClassifier(sts) == sts = {} /\ classifier = "None"

\* line 121
NeedsFallback(sts) == sts = {}

\* lines 121-126, and line 128 takes the set to iterate
Fallback ==
    /\ pc = "fallback"
    /\ statuses' = IF NeedsFallback(statuses) THEN {FallbackStatus} ELSE statuses
    /\ topic_labels' = IF NeedsFallback(statuses)
                       THEN Append(topic_labels, FallbackLabel) ELSE topic_labels
    /\ todo' = statuses'
    /\ selected_answers' = <<>>
    /\ pc' = "select"
    /\ UNCHANGED <<static, http, name, age, question, birth_year, result, idx, calls,
                   caught, final_response>>

\* an iteration that visits a status again
RestKeep(set, status) == set

\* line 128: what is left to iterate after status
Rest(set, status) == set \ {status}

\* the draw taking the answer out of the shared pool (pop instead of choice)
SelectStepPop ==
    /\ pc = "select"
    /\ \E status \in todo :
        \/ /\ ~HasAnswers(ANSWERS_DATA, status)
           /\ todo' = Rest(todo, status)
           /\ UNCHANGED <<selected_answers, pc, ANSWERS_DATA>>
        \/ /\ HasAnswers(ANSWERS_DATA, status)
           /\ Pool(ANSWERS_DATA, status) # <<>>
           /\ selected_answers' = Append(selected_answers, Head(Pool(ANSWERS_DATA, status)))
           /\ ANSWERS_DATA' = [ANSWERS_DATA EXCEPT
                                ![CategoryIndex(ANSWERS_DATA, status)].answers = Tail(@)]
           /\ todo' = Rest(todo, status)
           /\ UNCHANGED pc
        \/ /\ HasAnswers(ANSWERS_DATA, status)
           /\ Pool(ANSWERS_DATA, status) = <<>>
           /\ pc' = "raised"
           /\ UNCHANGED <<selected_answers, todo, ANSWERS_DATA>>
    /\ UNCHANGED <<classifier, LABEL_MAPPING, CANDIDATE_LABELS, WEBHOOK_URL, http,
                   name, age, question, birth_year, result, idx, calls,
                   caught, statuses, topic_labels, final_response>>

\* lines 128-133: one iteration, in the set's iteration order (any)
SelectStep ==
    /\ pc = "select"
    /\ \E status \in todo :
        \/ /\ ~HasAnswers(ANSWERS_DATA, status)
           /\ todo' = Rest(todo, status)
           /\ UNCHANGED <<selected_answers, pc>>
        \/ /\ HasAnswers(ANSWERS_DATA, status)
           /\ \E answer \in Choices(Pool(ANSWERS_DATA, status)) :
                selected_answers' = Append(selected_answers, answer)
           /\ todo' = Rest(todo, status)
           /\ UNCHANGED pc
        \/ /\ HasAnswers(ANSWERS_DATA, status)
           /\ Pool(ANSWERS_DATA, status) = <<>>    \* random.choice([]): IndexError
           /\ pc' = "raised"
           /\ UNCHANGED <<selected_answers, todo>>
    /\ UNCHANGED <<static, http, name, age, question, birth_year, result, idx, calls,
                   caught, statuses, topic_labels, final_response>>

\* the default appended unconditionally
WithDefaultAlways(answers) == Append(answers, DefaultAnswer)

\* lines 135-136
WithDefault(answers) == IF answers = <<>> THEN <<DefaultAnswer>> ELSE answers

\* lines 135-143
Compose ==
    /\ pc = "select"
    /\ todo = {}
    /\ selected_answers' = WithDefault(selected_answers)
    /\ final_response' = FormatResponse(name, birth_year, Join(selected_answers'))
    /\ pc' = "returned"
    /\ UNCHANGED <<static, http, name, age, question, birth_year, result, idx, calls,
                   caught, statuses, topic_labels, todo>>

\* a caller of get_fortune
Call ==
    /\ pc = "idle"
    /\ cur = 0
    /\ \E a \in Requests : GetFortuneEnter(a)
    /\ UNCHANGED <<static, http>>

\* get_fortune has returned or raised; the frame is gone
Release ==
    /\ pc \in {"returned", "raised"}
    /\ cur = 0
    /\ FrameReset
    /\ UNCHANGED <<static, http>>

Next ==
    \/ Call
    \/ ClassifierNone
    \/ ClassifierRaise
    \/ ClassifierReturn(Results)
    \/ LoopStep
    \/ LoopRaise
    \/ LoopEnd
    \/ Fallback
    \/ SelectStep
    \/ Compose
    \/ Release

Spec == Init /\ [][Next]_vars

----------------------------------------------------------------------------
(* The HTTP handlers, lines 152-205, and send_webhook, lines 72-84 *)

\* lines 162-177: what predict answers
PredictResponse(a) ==
    IF Invalid(a)
    THEN [kind |-> "redirect"]
    ELSE [kind |-> "loading", name |-> a.name, age |-> a.age, question |-> a.question]

\* lines 154-177: POST /predict; it never calls get_fortune
PredictHandler(r) ==
    /\ cur = 0
    /\ rpc[r] = "idle"
    /\ \E a \in FormData : response' = PredictResponse(a)
    /\ cur' = r
    /\ rpc' = [rpc EXCEPT ![r] = "predicted"]
    /\ UNCHANGED <<static, frame, rargs, sent, posts>>

\* lines 182-191: POST /result goes straight into get_fortune
ResultHandler(r) ==
    /\ cur = 0
    /\ rpc[r] = "idle"
    /\ pc = "idle"
    /\ \E a \in Requests :
        /\ GetFortuneEnter(a)
        /\ rargs' = [rargs EXCEPT ![r] = a]
    /\ cur' = r
    /\ rpc' = [rpc EXCEPT ![r] = "handler"]
    /\ UNCHANGED <<static, response, sent, posts>>

\* the webhook awaited inside the handler instead of queued as a background task
ResultAwaitWebhook(r) ==
    /\ cur = r
    /\ rpc[r] = "handler"
    /\ pc = "returned"
    /\ rpc' = [rpc EXCEPT ![r] = "background"]
    /\ cur' = 0
    /\ UNCHANGED <<static, frame, rargs, response, sent, posts>>

\* line 194, once get_fortune has returned
ResultAddTask(r) ==
    /\ cur = r
    /\ rpc[r] = "handler"
    /\ pc = "returned"
    /\ rpc' = [rpc EXCEPT ![r] = "task_added"]
    /\ UNCHANGED <<static, frame, cur, rargs, response, sent, posts>>

\* lines 196-205
ResultRespond(r) ==
    /\ cur = r
    /\ rpc[r] = "task_added"
    /\ response' = [kind |-> "result", name |-> name, age |-> age,
                    question |-> question, fortune |-> final_response]
    /\ rpc' = [rpc EXCEPT ![r] = "responded"]
    /\ UNCHANGED <<static, frame, cur, rargs, sent, posts>>

\* line 191: get_fortune raised; the handler has no except, the framework
\* answers 500 and line 194 is never reached
ResultRaise(r) ==
    /\ cur = r
    /\ rpc[r] = "handler"
    /\ pc = "raised"
    /\ response' = [kind |-> "error"]
    /\ rpc' = [rpc EXCEPT ![r] = "failed"]
    /\ UNCHANGED <<static, frame, cur, rargs, sent, posts>>

\* the handler has returned: the response goes out, the event loop is free,
\* and the background tasks of a /result response are run next
SendResponse(r) ==
    /\ cur = r
    /\ rpc[r] \in {"predicted", "responded", "failed"}
    /\ response' = NoResponse
    /\ FrameReset
    /\ cur' = 0
    /\ rpc' = [rpc EXCEPT ![r] = IF rpc[r] = "responded" THEN "background" ELSE "idle"]
    /\ sent' = [sent EXCEPT ![r] = (rpc[r] = "responded")]
    /\ rargs' = [rargs EXCEPT ![r] = IF rpc[r] = "responded" THEN rargs[r] ELSE NoArgs]
    /\ UNCHANGED <<static, posts>>

\* line 73: not WEBHOOK_URL
NoUrl(url) == url \in {"None", ""}

\* lines 73-74
SendWebhookNoUrl(r) ==
    /\ cur = 0
    /\ rpc[r] = "background"
    /\ NoUrl(WEBHOOK_URL)
    /\ rpc' = [rpc EXCEPT ![r] = "not_posted"]
    /\ UNCHANGED <<static, frame, cur, rargs, response, sent, posts>>

\* lines 76-82: the POST is sent and awaited
SendWebhookPost(r) ==
    /\ cur = 0
    /\ rpc[r] = "background"
    /\ ~NoUrl(WEBHOOK_URL)
    /\ posts' = [posts EXCEPT ![r] = posts[r] + 1]
    /\ rpc' = [rpc EXCEPT ![r] = "posting"]
    /\ UNCHANGED <<static, frame, cur, rargs, response, sent>>

\* line 82 returns
PostOk(r) ==
    /\ cur = 0
    /\ rpc[r] = "posting"
    /\ rpc' = [rpc EXCEPT ![r] = "posted"]
    /\ UNCHANGED <<static, frame, cur, rargs, response, sent, posts>>

\* a failed POST tried again
PostRaiseRetry(r) ==
    /\ cur = 0
    /\ rpc[r] = "posting"
    /\ rpc' = [rpc EXCEPT ![r] = "background"]
    /\ UNCHANGED <<static, frame, cur, rargs, response, sent, posts>>

\* line 82 raises, lines 83-84 catch it and send_webhook returns
PostRaise(r) ==
    /\ cur = 0
    /\ rpc[r] = "posting"
    /\ rpc' = [rpc EXCEPT ![r] = "post_failed"]
    /\ UNCHANGED <<static, frame, cur, rargs, response, sent, posts>>

\* send_webhook has returned: the request is over
Finish(r) ==
    /\ cur = 0
    /\ rpc[r] \in {"not_posted", "posted", "post_failed"}
    /\ rpc' = [rpc EXCEPT ![r] = "idle"]
    /\ rargs' = [rargs EXCEPT ![r] = NoArgs]
    /\ sent' = [sent EXCEPT ![r] = FALSE]
    /\ posts' = [posts EXCEPT ![r] = 0]
    /\ UNCHANGED <<static, frame, cur, response>>

NextHttp ==
    \/ \E r \in Reqs : PredictHandler(r)
    \/ \E r \in Reqs : ResultHandler(r)
    \/ ClassifierNone
    \/ ClassifierRaise
    \/ ClassifierReturn(HttpResults)
    \/ LoopStep
    \/ LoopRaise
    \/ LoopEnd
    \/ Fallback
    \/ SelectStep
    \/ Compose
    \/ \E r \in Reqs : ResultAddTask(r)
    \/ \E r \in Reqs : ResultRespond(r)
    \/ \E r \in Reqs : ResultRaise(r)
    \/ \E r \in Reqs : SendResponse(r)
    \/ \E r \in Reqs : SendWebhookNoUrl(r)
    \/ \E r \in Reqs : SendWebhookPost(r)
    \/ \E r \in Reqs : PostOk(r)
    \/ \E r \in Reqs : PostRaise(r)
    \/ \E r \in Reqs : Finish(r)

SpecHttp == Init /\ [][NextHttp]_vars

----------------------------------------------------------------------------
(* Properties *)

\* the entries of result the loop of line 110 has been through
Consumed == SubSeq(result, 1, idx)

\* the entries of res that count: score over 0.6 and a label of the mapping
Counting(res) ==
    SelectSeq(res, LAMBDA e : e.score > Threshold /\ e.label \in DOMAIN LabelMappingInit)

LabelsOf(res) == [k \in 1..Len(res) |-> res[k].label]

StatusesOf(res) == {LabelMappingInit[res[k].label] : k \in 1..Len(res)}

Resolved == pc \in {"select", "returned", "raised"}

Failed == classifier = "None" \/ caught # ""

DrawnFrom(pool) ==
    Cardinality({k \in 1..Len(selected_answers) : selected_answers[k] \in pool})

Drawable(status) ==
    \E k \in 1..Len(ANSWERS_DATA) :
        /\ ANSWERS_DATA[k].status = status
        /\ \A j \in 1..(k - 1) : ANSWERS_DATA[j].status # status
        /\ "answers" \in DOMAIN ANSWERS_DATA[k]
        /\ ANSWERS_DATA[k].answers # <<>>

RECURSIVE SpacedFrom(_, _)
SpacedFrom(seq, k) ==
    IF k > Len(seq) THEN ""
    ELSE (IF k > 1 THEN " " ELSE "") \o seq[k] \o SpacedFrom(seq, k + 1)

Prefix == "Gia chu " \o name \o ", Sinh nam " \o ToString(birth_year) \o ". "

\* C1: when get_fortune starts selecting answers (and from then on) the
\* resolved status set is not empty, whatever the classifier did.
C1_StatusesNonEmpty == Resolved => statuses # {}

\* the classifier answered, every score is at or below the threshold, and
\* selection starts on the fallback status
C1_Witness ==
    /\ pc = "select"
    /\ classifier # "None" /\ caught = ""
    /\ result # <<>>
    /\ \A k \in 1..Len(result) : result[k].score <= Threshold
    /\ statuses = {FallbackStatus}

\* C2: the threshold is strict. While and after the labels are filtered, the
\* matched labels are exactly the consumed labels with a score strictly over
\* 0.6 (and a mapping), the status set is exactly their statuses, and a status
\* other than the fallback is in the set only if a consumed label mapped to it
\* scored strictly over 0.6.
C2_StrictThreshold ==
    /\ pc \in {"loop", "fallback"} =>
        /\ topic_labels = LabelsOf(Counting(Consumed))
        /\ statuses = StatusesOf(Counting(Consumed))
    /\ \A s \in statuses \ {FallbackStatus} :
        \E k \in 1..idx :
            /\ result[k].score > Threshold
            /\ result[k].label \in DOMAIN LabelMappingInit
            /\ LabelMappingInit[result[k].label] = s

\* a mapped label at exactly 0.6 was left out and one over 0.6 was taken
C2_Witness ==
    /\ pc = "fallback"
    /\ idx = 2
    /\ \E j, k \in 1..2 :
        /\ result[j].score = Threshold /\ result[j].label = "Su nghiep"
        /\ result[k].score > Threshold /\ result[k].label = "Tinh duyen"
    /\ statuses = {"S1"}

\* C3 as stated: after any classification failure (classifier missing, or an
\* error anywhere in the classification step) the status set is {S4} and the
\* matched labels are [Tong quat].
C3_Original ==
    (Resolved /\ Failed) =>
        /\ statuses = {FallbackStatus}
        /\ topic_labels = <<FallbackLabel>>

\* C3 amended: after a classification failure the labels matched before the
\* error are kept; the status set is {S4} with [Tong quat] exactly when none
\* had been matched, which is always so when the classifier is missing or
\* its call raises. The classification error never leaves get_fortune: the
\* only error that does is the draw from an empty pool.
C3_FailureKeepsMatched ==
    /\ (Resolved /\ Failed) =>
        IF Counting(Consumed) = <<>>
        THEN /\ statuses = {FallbackStatus}
             /\ topic_labels = <<FallbackLabel>>
        ELSE /\ statuses = StatusesOf(Counting(Consumed))
             /\ topic_labels = LabelsOf(Counting(Consumed))
    /\ (classifier = "None" \/ caught = "call") => Consumed = <<>>
    /\ pc = "raised" =>
        \E s \in todo : HasAnswers(ANSWERS_DATA, s) /\ Pool(ANSWERS_DATA, s) = <<>>

\* the classifier call raised and get_fortune returned the fallback's result
C3_Witness ==
    /\ pc = "returned"
    /\ caught = "call"
    /\ statuses = {FallbackStatus}
    /\ topic_labels = <<FallbackLabel>>

\* C4 as stated: answer composition never raises and returns a non-empty
\* string, for every content of the answer table.
C4_ComposeNeverRaises ==
    /\ pc # "raised"
    /\ pc = "returned" => final_response # ""

\* C5 as stated: get_fortune only ever runs with a non-empty name, a
\* non-empty question and an age in 1..120.
C5_OnlyValidReachCore ==
    pc # "idle" =>
        /\ name # "" /\ question # ""
        /\ age >= 1 /\ age <= 120

\* C6: in the handling of /result the task is queued only once the fortune is
\* computed, the response carries that fortune and is sent before send_webhook
\* runs (so no outcome of the webhook can change it), and without a webhook
\* URL no POST is made.
C6_WebhookDecoupled ==
    \A r \in Reqs :
        /\ rpc[r] = "task_added" =>
            /\ cur = r /\ pc = "returned"
            /\ final_response = Prefix \o SpacedFrom(selected_answers, 1)
        /\ rpc[r] = "responded" =>
            /\ response.kind = "result"
            /\ response.fortune = final_response
        /\ rpc[r] \in {"background", "posting", "posted", "post_failed", "not_posted"} =>
            sent[r]
        /\ posts[r] > 0 => (sent[r] /\ WEBHOOK_URL = "https://hook")
        /\ WEBHOOK_URL \in {"None", ""} =>
            (posts[r] = 0 /\ rpc[r] \notin {"posting", "posted", "post_failed"})

\* a webhook POST failed after its request's response had been sent
C6_Witness ==
    \E r \in Reqs : rpc[r] = "post_failed" /\ sent[r] /\ posts[r] = 1

\* C7: each resolved status gives one answer. During and after selection, a
\* status with a usable pool has contributed exactly one answer of its own
\* pool once visited and none before; the returned message is the greeting
\* followed by the answers in accumulation order with single spaces between.
C7_OneAnswerPerStatus ==
    Resolved =>
        /\ \A s \in statuses :
            Drawable(s) =>
                DrawnFrom(Choices(Pool(ANSWERS_DATA, s))) = IF s \in todo THEN 0 ELSE 1
        /\ pc = "returned" =>
            /\ final_response = Prefix \o SpacedFrom(selected_answers, 1)
            /\ Len(selected_answers) >= Cardinality({s \in statuses : Drawable(s)})
            /\ Len(selected_answers) <= Cardinality(statuses)

\* two labels over the threshold that map to S1: one status, one answer
C7_Witness ==
    /\ pc = "returned"
    /\ topic_labels = <<"Tinh duyen", "Gia dao">>
    /\ statuses = {"S1"}
    /\ Len(selected_answers) = 1
    /\ selected_answers[1] \in {"a1", "b1"}

\* C8: the default string is in the message exactly when no resolved status
\* gave an answer, and then it is the only answer; with the empty table the
\* message is the greeting followed by the default string.
C8_DefaultIffNoAnswer ==
    pc = "returned" =>
        /\ (\E k \in 1..Len(selected_answers) : selected_answers[k] = DefaultAnswer)
            <=> ~(\E s \in statuses : Drawable(s))
        /\ (\E k \in 1..Len(selected_answers) : selected_answers[k] = DefaultAnswer)
            => selected_answers = <<DefaultAnswer>>
        /\ ANSWERS_DATA = <<>> => final_response = Prefix \o DefaultAnswer

\* the table failed to load and the message is the default one
C8_Witness ==
    /\ pc = "returned"
    /\ ANSWERS_DATA = <<>>
    /\ final_response = Prefix \o DefaultAnswer

\* the status set get_fortune resolves, from its own classifier output alone
OwnStatuses ==
    IF Counting(Consumed) = <<>> THEN {FallbackStatus} ELSE StatusesOf(Counting(Consumed))

\* C9: no step of any request changes the answer table, the label mapping,
\* the candidate labels, the classifier or the webhook URL, and the status set
\* a request resolves is the one its own classifier output gives, whatever
\* the other requests are doing.
C9_NoSharedStateChange ==
    /\ [][static' = static]_vars
    /\ [](LABEL_MAPPING = LabelMappingInit /\ CANDIDATE_LABELS = CandidateLabelsInit)
    /\ [](Resolved => statuses = OwnStatuses)

\* a request resolves its statuses while another request's webhook is in flight
C9_Witness ==
    \E r1, r2 \in Reqs :
        /\ rpc[r1] = "posting"
        /\ rpc[r2] = "handler" /\ cur = r2
        /\ pc = "select" /\ result # <<>> /\ statuses = {"S1"}

\* C10: in the handling of one /result request the classifier is invoked at
\* most once and the webhook POST is attempted at most once.
C10_NoRetries ==
    /\ calls <= 1
    /\ \A r \in Reqs : posts[r] <= 1

\* one request's POST has failed and another's classifier call has failed
C10_Witness ==
    /\ \E r \in Reqs : rpc[r] = "post_failed" /\ posts[r] = 1
    /\ pc = "returned" /\ caught = "call" /\ calls = 1

====
